---- MODULE Spec2Model ----
(***************************************************************************)
(* A model of aufloes, a DNS forwarding proxy.                             *)
(*                                                                         *)
(*   Spec          the UDP multiplexing client (client/udp/udp_client.rs): *)
(*                 concurrent resolve_raw calls, the pending table behind  *)
(*                 its mutex, the background receive task, the upstream's  *)
(*                 datagrams and the drop of the client.                   *)
(*   FairSpec      Spec with the fairness of the tokio scheduler, the FIFO *)
(*                 mutex and the 5 s timer.                                *)
(*   ResolverSpec  the resolver's dispatch loop (resolver/resolver.rs)     *)
(*                 over an upstream transport (`dyn Client`).              *)
(*                                                                         *)
(* A DNS message is a sequence of bytes; bytes 0-1 (here m[1], m[2]) are   *)
(* the big-endian transaction ID, the byte after them stands for the rest  *)
(* of the message (the question a response answers).                       *)
(***************************************************************************)
EXTENDS Integers, Sequences, FiniteSets, TLC

\* ------------------------------------------------------------------ bounds
\* Number of resolve_raw calls issued on the one UdpClient.
NumCalls == 3
\* Number of transaction IDs rng.gen() can return (65536 in the program).
NumTxids == 2
\* Most datagrams in flight from the upstream to the client at one time.
MaxWire == 1
\* Number of datagrams the resolver's socket receives.
MaxRequests == 2
\* Number of downstream peers.
NumPeers == 2
\* Number of resolve_raw calls made on a client before it is dropped.
DropCalls == 2

Calls == 1..NumCalls
\* The IDs the model samples: 0x0001, 0x0100, 0x01FF, ... (both bytes matter).
TXIDS == {1 + 255 * k : k \in 0..(NumTxids - 1)}

NoCall == 0
NoTxid == -1
\* Holders of the pending-table mutex.
Unlocked == <<"unlocked">>
HeldByCall(c) == <<"resolve_raw", c>>
HeldByReceiveTask == <<"receive_task">>

\* ------------------------------------------------------------------ proto
\* u16::to_be_bytes
to_be_bytes(t) == <<t \div 256, t % 256>>

\* u16::from_be_bytes
from_be_bytes(b) == b[1] * 256 + b[2]

\* proto::txid_from_binary_message; message[0..2] panics on a shorter message
txid_from_binary_message(message) == from_be_bytes(SubSeq(message, 1, 2))

\* data[0..2].copy_from_slice(&txid.to_be_bytes())
set_txid(data, t) == to_be_bytes(t) \o SubSeq(data, 3, Len(data))

\* A slice [0..2] of the message exists.
HasTxid(message) == Len(message) >= 2

\* ------------------------------------------------------------------ state
VARIABLES
  pc,          \* per call: where resolve_raw stands
  data,        \* per call: the request buffer `data`
  txid,        \* per call: the ID new_pending_request returned (NoTxid before)
  chan,        \* per call: the oneshot channel (sender in the table, receiver in the call)
  result,      \* per call: what resolve_raw returned
  pending,     \* the pending table: transaction ID -> the call whose sender it holds
  lock,        \* holder of the pending-table mutex
  wire,        \* datagrams on their way from the upstream to the socket
  rxpc,        \* where receive_task stands
  rxdata,      \* receive_task's `data`
  rxOutcome,   \* history: what the receive loop did with the last datagram it looked up
  shutdown_tx, \* "armed" until Drop takes and fires it
  sent,        \* history: the calls whose datagram socket.send has sent
  consumed,    \* history: the calls whose entry a remove has taken out of the table
  rpc,         \* resolver: per downstream request, where its handler stands
  request,     \* resolver: per downstream request, the Request { peer, data }
  saved_txid,  \* resolver: per request, request_handler's `txid`
  upstream,    \* resolver: per request, the outcome of upstream.resolve_raw
  replies,     \* resolver: the datagrams send_to has sent, with the request they answer
  REQUEST_ID,  \* resolver: the process-wide request counter
  transport    \* resolver: the upstream transport behind `dyn Client`

udpVars == <<pc, data, txid, chan, result, pending, lock, wire, rxpc, rxdata,
             rxOutcome, shutdown_tx, sent, consumed>>
resolverVars == <<rpc, request, saved_txid, upstream, replies, REQUEST_ID,
                  transport>>
vars == <<udpVars, resolverVars>>

\* ------------------------------------------------------------ the messages
\* The requests a caller passes to resolve_raw: a DNS message (at least 2
\* bytes, the precondition of data[0..2]) with any ID in bytes 0-1, then its
\* question.
CallInputs(c) == {<<0, 0, c>>}

\* The upstream answers a request with its ID and its question.
ResponseTo(req) == req

\* Datagrams nobody asked for: any sampled ID with question 0, or a runt.
Unsolicited == {to_be_bytes(t) \o <<0>> : t \in TXIDS} \cup {<<0>>}

\* The question a message carries (the call it belongs to; 0: nobody's).
QuestionOf(message) == message[Len(message)]

NoResult == [kind |-> "none", data |-> <<>>]
Ok(d) == [kind |-> "ok", data |-> d]
Err(what) == [kind |-> what, data |-> <<>>]

EmptyChan == [state |-> "none", val |-> <<>>]

\* ------------------------------------------------------------ the table
\* Mutex::default(): an empty HashMap
EmptyTable == [t \in {} |-> NoCall]

\* HashMap::contains_key
contains_key(p, t) == t \in DOMAIN p

\* HashMap::insert: replaces what was there
insert(p, t, c) == (t :> c) @@ p

\* A lookup that leaves the entry in the map.
remove_nothing(p, t) == p

\* HashMap::remove
remove(p, t) == [k \in DOMAIN p \ {t} |-> p[k]]

\* The sender found under t, NoCall if none (what insert and remove return).
SenderAt(p, t) == IF contains_key(p, t) THEN p[t] ELSE NoCall

\* Dropping the sender of call o without a send closes o's channel.
DropSender(ch, o) ==
  IF o # NoCall /\ ch[o].state = "open"
  THEN [ch EXCEPT ![o].state = "closed"]
  ELSE ch

\* The receiver of call o is alive while resolve_raw holds or awaits it.
ReceiverAlive(o) == pc[o] \in {"send", "wait"}

\* ------------------------------------------------------------------- Init
UdpInit ==
  /\ pc = [c \in Calls |-> "idle"]
  /\ data = [c \in Calls |-> <<>>]
  /\ txid = [c \in Calls |-> NoTxid]
  /\ chan = [c \in Calls |-> EmptyChan]
  /\ result = [c \in Calls |-> NoResult]
  /\ pending = EmptyTable
  /\ lock = Unlocked
  /\ wire = {}
  /\ rxpc = "select"
  /\ rxdata = <<>>
  /\ rxOutcome = "none"
  /\ shutdown_tx = "armed"
  /\ sent = {}
  /\ consumed = {}

ResolverIdle ==
  /\ rpc = <<>>
  /\ request = <<>>
  /\ saved_txid = <<>>
  /\ upstream = <<>>
  /\ replies = {}
  /\ REQUEST_ID = 0
  /\ transport = "https"

\* ------------------------------------------------- UdpClient::resolve_raw
\* The mutex is a tokio Mutex: a task awaits it without blocking the others,
\* and between `lock().await` returning and the guard's drop the holder runs
\* no await, so each critical section is one step. The one section that may
\* not end is the sampling loop of new_pending_request: with every ID in the
\* table it draws for ever, the guard held ("pick").

\* The IDs the sampling loop of new_pending_request can leave with: rng.gen()
\* is drawn again until the table does not contain it.
UnusedTxids(p) == {t \in TXIDS : ~contains_key(p, t)}

\* Register with the guard kept by resolve_raw after new_pending_request has
\* returned, so that it is held across the send and the wait.
RegisterKeepingGuard(c, d, t) ==
  /\ pending' = insert(pending, t, c)
  /\ txid' = [txid EXCEPT ![c] = t]
  /\ chan' = [chan EXCEPT ![c] = [state |-> "open", val |-> <<>>]]
  /\ data' = [data EXCEPT ![c] = set_txid(d, t)]
  /\ pc' = [pc EXCEPT ![c] = "send"]
  /\ lock' = HeldByCall(c)

\* What new_pending_request and the write of the ID into the request do once
\* the loop has left with t. The insert's previous value fails the assertion
\* "TXID collision": the panic unwinds, dropping that sender, the guard and
\* the receiver.
Register(c, d, t) ==
  LET prev_value == SenderAt(pending, t) IN
  /\ pending' = insert(pending, t, c)
  /\ txid' = [txid EXCEPT ![c] = IF prev_value # NoCall THEN NoTxid ELSE t]
  /\ chan' = DropSender([chan EXCEPT ![c] = [state |-> "open", val |-> <<>>]],
                        prev_value)
  /\ data' = [data EXCEPT ![c] = set_txid(d, t)]
  /\ pc' = [pc EXCEPT ![c] = IF prev_value # NoCall THEN "panicked" ELSE "send"]
  /\ lock' = Unlocked

\* new_pending_request inserting an ID that it checked before it held the
\* guard: the table may have changed since, the assertion still stands.
new_pending_request_stale(c) ==
  /\ pc[c] = "idle"
  /\ shutdown_tx = "armed"
  /\ lock = Unlocked
  /\ \E d \in CallInputs(c), t \in TXIDS : Register(c, d, t)
  /\ UNCHANGED <<result, wire, rxpc, rxdata, rxOutcome, shutdown_tx, sent,
                 consumed>>
  /\ UNCHANGED resolverVars

\* new_pending_request with `rng.gen()` inserted as drawn: no loop, no
\* assertion.
new_pending_request_unchecked(c) ==
  /\ pc[c] = "idle"
  /\ shutdown_tx = "armed"
  /\ lock = Unlocked
  /\ \E d \in CallInputs(c), t \in TXIDS :
       /\ pending' = insert(pending, t, c)
       /\ txid' = [txid EXCEPT ![c] = t]
       /\ chan' = DropSender([chan EXCEPT ![c] = [state |-> "open", val |-> <<>>]],
                             SenderAt(pending, t))
       /\ data' = [data EXCEPT ![c] = set_txid(d, t)]
       /\ pc' = [pc EXCEPT ![c] = "send"]
       /\ lock' = Unlocked
  /\ UNCHANGED <<result, wire, rxpc, rxdata, rxOutcome, shutdown_tx, sent,
                 consumed>>
  /\ UNCHANGED resolverVars

\* resolve_raw(data) is called on the client (which its owner still holds);
\* new_pending_request gets the guard and picks and inserts an ID, or finds
\* every ID in the table and keeps drawing.
new_pending_request(c) ==
  /\ pc[c] = "idle"
  /\ shutdown_tx = "armed"
  /\ lock = Unlocked
  /\ \E d \in CallInputs(c) :
       IF UnusedTxids(pending) = {}
       THEN /\ lock' = HeldByCall(c)
            /\ pc' = [pc EXCEPT ![c] = "pick"]
            /\ data' = [data EXCEPT ![c] = d]
            /\ UNCHANGED <<pending, txid, chan>>
       ELSE \E t \in UnusedTxids(pending) : Register(c, d, t)
  /\ UNCHANGED <<result, wire, rxpc, rxdata, rxOutcome, shutdown_tx, sent,
                 consumed>>
  /\ UNCHANGED resolverVars

\* resolve_raw sending its datagram first and registering afterwards.
SendBeforeRegister(c) ==
  /\ pc[c] \in {"idle", "send"}
  /\ shutdown_tx = "armed"
  /\ sent' = sent \cup {c}
  /\ pc' = [pc EXCEPT ![c] = IF pc[c] = "idle" THEN "idle" ELSE "wait"]
  /\ wire' = wire
  /\ UNCHANGED <<data, txid, chan, result, pending, lock, rxpc, rxdata,
                 rxOutcome, shutdown_tx, consumed>>
  /\ UNCHANGED resolverVars

\* `self.inner.socket.send(&data).await` succeeds: the datagram leaves; the
\* upstream's response to it is on the wire from now on, or never comes.
SendOk(c) ==
  /\ pc[c] = "send"
  /\ sent' = sent \cup {c}
  /\ pc' = [pc EXCEPT ![c] = "wait"]
  /\ \/ wire' = wire
     \/ /\ Cardinality(wire) < MaxWire
        /\ ResponseTo(data[c]) \notin wire
        /\ wire' = wire \cup {ResponseTo(data[c])}
  /\ UNCHANGED <<data, txid, chan, result, pending, lock, rxpc, rxdata,
                 rxOutcome, shutdown_tx, consumed>>
  /\ UNCHANGED resolverVars

\* `self.inner.socket.send(&data).await?` fails: `?` returns the error.
SendErr(c) ==
  /\ pc[c] = "send"
  /\ pc' = [pc EXCEPT ![c] = "done"]
  /\ result' = [result EXCEPT ![c] = Err("send_error")]
  /\ UNCHANGED <<data, txid, chan, pending, lock, wire, rxpc, rxdata,
                 rxOutcome, shutdown_tx, sent, consumed>>
  /\ UNCHANGED resolverVars

\* timeout(.., receiver) yields Ok(Ok(response)): `Ok(response?)`.
WaitResponse(c) ==
  /\ pc[c] = "wait"
  /\ chan[c].state = "filled"
  /\ pc' = [pc EXCEPT ![c] = "done"]
  /\ result' = [result EXCEPT ![c] = Ok(chan[c].val)]
  /\ UNCHANGED <<data, txid, chan, pending, lock, wire, rxpc, rxdata,
                 rxOutcome, shutdown_tx, sent, consumed>>
  /\ UNCHANGED resolverVars

\* timeout(.., receiver) yields Ok(Err(err)), the sender was dropped unsent,
\* or Err(_), 5 s passed with the channel empty: the arm awaits the mutex.
WaitFails(c) ==
  /\ pc[c] = "wait"
  /\ chan[c].state \in {"closed", "open"}
  /\ pc' = [pc EXCEPT ![c] = IF chan[c].state = "closed" THEN "lock_closed"
                                                         ELSE "lock_timeout"]
  /\ UNCHANGED <<data, txid, chan, result, pending, lock, wire, rxpc, rxdata,
                 rxOutcome, shutdown_tx, sent, consumed>>
  /\ UNCHANGED resolverVars

\* An error arm that leaves the table alone.
CleanupForgotten(c) ==
  /\ pending' = pending
  /\ chan' = chan
  /\ consumed' = consumed

\* What `pending.remove(&txid)` of an error arm does: the sender it returns
\* (whoever's it is) is dropped.
CleanupRemove(c) ==
  LET o == SenderAt(pending, txid[c]) IN
  /\ pending' = remove(pending, txid[c])
  /\ chan' = DropSender(chan, o)
  /\ consumed' = IF o = NoCall THEN consumed ELSE consumed \cup {o}

\* An error arm: the guard is taken, `pending.remove(&txid)`, the error is
\* returned and the guard released.
Cleanup(c) ==
  /\ pc[c] \in {"lock_closed", "lock_timeout"}
  /\ lock = Unlocked
  /\ CleanupRemove(c)
  /\ result' = [result EXCEPT ![c] = IF pc[c] = "lock_closed"
                                     THEN Err("closed") ELSE Err("timeout")]
  /\ pc' = [pc EXCEPT ![c] = "done"]
  /\ lock' = Unlocked
  /\ UNCHANGED <<data, txid, wire, rxpc, rxdata, rxOutcome, shutdown_tx, sent>>
  /\ UNCHANGED resolverVars

resolve_raw(c) ==
  \/ new_pending_request(c)
  \/ SendOk(c)
  \/ SendErr(c)
  \/ WaitResponse(c)
  \/ WaitFails(c)
  \/ Cleanup(c)

\* ----------------------------------------------- UdpClient::receive_task
\* select!: socket.recv returns an error; warn and `continue`.
RecvErr ==
  /\ rxpc = "select"
  /\ UNCHANGED <<pc, data, txid, chan, result, pending, lock, wire, rxpc,
                 rxdata, rxOutcome, sent, consumed, shutdown_tx>>
  /\ UNCHANGED resolverVars

\* select!: socket.recv returns a datagram; its ID is read from bytes 0-1,
\* which panics the task when the datagram is shorter; then the mutex is
\* awaited.
RecvOk ==
  /\ rxpc = "select"
  /\ \E d \in wire :
       /\ wire' = wire \ {d}
       /\ IF HasTxid(d)
          THEN /\ rxdata' = d
               /\ rxpc' = "lock"
               /\ rxOutcome' = rxOutcome
          ELSE /\ rxdata' = <<>>
               /\ rxpc' = "panicked"
               /\ rxOutcome' = rxOutcome
  /\ UNCHANGED <<pc, data, txid, chan, result, pending, lock, sent, consumed,
                 shutdown_tx>>
  /\ UNCHANGED resolverVars

\* The receive loop looking the sender up with `get`: the entry stays.
DeliverWithoutRemove(t, d) ==
  LET o == SenderAt(pending, t) IN
  /\ pending' = pending
  /\ IF o = NoCall
     THEN /\ rxOutcome' = "discarded"
          /\ UNCHANGED <<chan, consumed>>
     ELSE /\ consumed' = consumed \cup {o}
          /\ rxOutcome' = "served"
          /\ chan' = IF ReceiverAlive(o)
                     THEN [chan EXCEPT ![o] = [state |-> "filled", val |-> d]]
                     ELSE chan
  /\ rxpc' = "select"

\* The receive loop unwrapping the removed entry: a datagram without one
\* panics the task.
RemoveOrPanic(t, d) ==
  LET o == SenderAt(pending, t) IN
  /\ pending' = remove(pending, t)
  /\ IF o = NoCall
     THEN /\ rxOutcome' = "discarded"
          /\ rxpc' = "panicked"
          /\ UNCHANGED <<chan, consumed>>
     ELSE /\ consumed' = consumed \cup {o}
          /\ rxOutcome' = "served"
          /\ rxpc' = "select"
          /\ chan' = IF ReceiverAlive(o)
                     THEN [chan EXCEPT ![o] = [state |-> "filled", val |-> d]]
                     ELSE chan

\* What the receive loop does with the guard: `pending.remove(&txid)`;
\* without an entry the datagram is ignored; with one, `sender.send(Ok(data))`,
\* whose failure (the receiver is gone) is ignored. Either way the loop goes
\* on to its next iteration.
RemoveAndDeliver(t, d) ==
  LET o == SenderAt(pending, t) IN
  /\ IF o = NoCall
     THEN /\ rxOutcome' = "discarded"
          /\ UNCHANGED <<pending, chan, consumed>>
     ELSE /\ pending' = remove(pending, t)
          /\ consumed' = consumed \cup {o}
          /\ IF ReceiverAlive(o)
             THEN /\ chan' = [chan EXCEPT ![o] = [state |-> "filled", val |-> d]]
                  /\ rxOutcome' = "served"
             ELSE /\ chan' = chan
                  /\ rxOutcome' = "served"
  /\ rxpc' = "select"

\* `inner.pending.lock().await` returns the guard, the entry is removed and
\* served, the guard drops at the end of the iteration.
Deliver ==
  /\ rxpc = "lock"
  /\ lock = Unlocked
  /\ RemoveAndDeliver(txid_from_binary_message(rxdata), rxdata)
  /\ lock' = Unlocked
  /\ rxdata' = <<>>
  /\ UNCHANGED <<pc, data, txid, result, wire, sent, shutdown_tx>>
  /\ UNCHANGED resolverVars

\* select! going round again on a ready shutdown_rx instead of breaking.
ShutdownIgnored ==
  /\ rxpc = "select"
  /\ shutdown_tx = "fired"
  /\ UNCHANGED udpVars
  /\ UNCHANGED resolverVars

\* select!: shutdown_rx is ready; `break`.
Shutdown ==
  /\ rxpc = "select"
  /\ shutdown_tx = "fired"
  /\ rxpc' = "stopped"
  /\ UNCHANGED <<pc, data, txid, chan, result, pending, lock, wire, rxdata,
                 rxOutcome, sent, consumed, shutdown_tx>>
  /\ UNCHANGED resolverVars

receive_task ==
  \/ RecvErr
  \/ RecvOk
  \/ Deliver
  \/ Shutdown

\* ------------------------------------------------------ Drop for UdpClient
\* The client is dropped by its owner, which no resolve_raw borrows any more:
\* `self.shutdown_tx.take().unwrap().send(())`.
Drop ==
  /\ shutdown_tx = "armed"
  /\ \A c \in Calls : pc[c] \in {"idle", "done", "panicked"}
  /\ shutdown_tx' = "fired"
  /\ UNCHANGED <<pc, data, txid, chan, result, pending, lock, wire, rxpc,
                 rxdata, rxOutcome, sent, consumed>>
  /\ UNCHANGED resolverVars

\* ------------------------------------------------------------ the upstream
\* The upstream (the only peer of the connected socket) sends a datagram
\* that answers no request.
SendUnsolicited ==
  /\ Cardinality(wire) < MaxWire
  /\ \E d \in Unsolicited \ wire : wire' = wire \cup {d}
  /\ UNCHANGED <<pc, data, txid, chan, result, pending, lock, rxpc, rxdata,
                 rxOutcome, sent, consumed, shutdown_tx>>
  /\ UNCHANGED resolverVars

\* ------------------------------------------------------------------- Spec
Init == UdpInit /\ ResolverIdle

UdpNext ==
  \/ \E c \in Calls : resolve_raw(c)
  \/ receive_task
  \/ Drop
  \/ SendUnsolicited

Next == UdpNext

Spec == Init /\ [][Next]_vars

\* ------------------------------------------------ HttpsClient::resolve_raw
\* `data[0] = 0; data[1] = 0;`: the message posted to the upstream.
https_post(d) == <<0, 0>> \o SubSeq(d, 3, Len(d))

\* reqwest's StatusCode::is_success
is_success(status) == status >= 200 /\ status < 300

\* No HTTP exchange (yet, or the transport is not HTTPS).
NoHttpResponse == [kind |-> "none", status |-> 0, body |-> <<>>]

\* What the upstream's HTTP endpoint may answer to a posted message: a
\* status with a body (the response under ID 0, under any other ID, or a
\* body too short for an ID), a status whose body cannot be read, or no HTTP
\* response at all.
HttpResponses(posted) ==
  {[kind |-> "response", status |-> st, body |-> b] :
     st \in {200, 500},
     b \in {ResponseTo(posted), <<0>>}
           \cup {set_txid(ResponseTo(posted), t) : t \in TXIDS}}
  \cup {[kind |-> "body_error", status |-> st, body |-> <<>>] : st \in {200, 500}}
  \cup {[kind |-> "transport_error", status |-> 0, body |-> <<>>]}

\* HttpsClient::resolve_raw without its status check: the body is returned
\* whatever the status.
https_result_unchecked(original_txid, resp) ==
  IF resp.kind = "transport_error" THEN Err("upstream_error")
  ELSE IF resp.kind = "body_error" THEN Err("upstream_error")
  ELSE IF ~HasTxid(resp.body) THEN Err("panic")
  ELSE Ok(set_txid(resp.body, original_txid))

\* HttpsClient::resolve_raw handing on the body as the upstream sent it.
https_result_unrestored(original_txid, resp) ==
  IF resp.kind = "transport_error" THEN Err("upstream_error")
  ELSE IF ~is_success(resp.status) THEN Err("status_error")
  ELSE IF resp.kind = "body_error" THEN Err("upstream_error")
  ELSE IF ~HasTxid(resp.body) THEN Err("panic")
  ELSE Ok(resp.body)

\* HttpsClient::resolve_raw from the response on: `.send().await?`, the
\* status check, `response.bytes()`, the restored ID (which panics on a body
\* without bytes 0-1).
https_result(original_txid, resp) ==
  IF resp.kind = "transport_error" THEN Err("upstream_error")
  ELSE IF ~is_success(resp.status) THEN Err("status_error")
  ELSE IF resp.kind = "body_error" THEN Err("upstream_error")
  ELSE IF ~HasTxid(resp.body) THEN Err("panic")
  ELSE Ok(set_txid(resp.body, original_txid))

\* What UdpClient::resolve_raw may return: an error, or the datagram the
\* receive loop found under the call's ID (whatever its question).
UdpResults ==
  {Err("send_error"), Err("timeout"), Err("closed")}
  \cup {Ok(to_be_bytes(t) \o <<q>>) : t \in TXIDS, q \in 0..MaxRequests}

\* upstream_client.resolve_raw(request.data): what the upstream answered
\* over HTTP, if that is the transport, and what the call returns.
ResolveOutcomes(tr, d) ==
  IF tr = "https"
  THEN {[response |-> resp,
         result |-> https_result(txid_from_binary_message(d), resp)] :
          resp \in HttpResponses(https_post(d))}
  ELSE {[response |-> NoHttpResponse, result |-> res] : res \in UdpResults}

\* ------------------------------------------------------------ the resolver
Peers == 1..NumPeers
Requests == 1..Len(rpc)

\* The datagrams a downstream peer sends: a query under any ID, or a runt.
DownstreamInputs ==
  {to_be_bytes(t) \o <<q>> : t \in TXIDS \cup {0}, q \in 1..MaxRequests}
  \cup {<<0>>}

NoUpstream ==
  [posted |-> <<>>, posts |-> 0, response |-> NoHttpResponse,
   result |-> NoResult]

ResolverInit ==
  /\ rpc = <<>>
  /\ request = <<>>
  /\ saved_txid = <<>>
  /\ upstream = <<>>
  /\ replies = {}
  /\ REQUEST_ID = 0
  /\ transport \in {"https", "udp"}

\* socket_handler: recv_from returns an error; warn and `continue`.
socket_handler_error ==
  /\ UNCHANGED resolverVars
  /\ UNCHANGED udpVars

\* socket_handler: recv_from returns a datagram; the Request takes the next
\* REQUEST_ID and its handler is spawned.
socket_handler ==
  /\ Len(rpc) < MaxRequests
  /\ \E peer \in Peers, d \in DownstreamInputs :
       request' = Append(request, [id |-> REQUEST_ID, peer |-> peer, data |-> d])
  /\ REQUEST_ID' = REQUEST_ID + 1
  /\ rpc' = Append(rpc, "spawned")
  /\ saved_txid' = Append(saved_txid, NoTxid)
  /\ upstream' = Append(upstream, NoUpstream)
  /\ UNCHANGED <<replies, transport>>
  /\ UNCHANGED udpVars

\* request_handler up to its first await: the ID of the request is stored
\* (a request without bytes 0-1 panics the task) and resolve_raw is called.
request_handler_begin(r) ==
  /\ r \in Requests
  /\ rpc[r] = "spawned"
  /\ IF HasTxid(request[r].data)
     THEN /\ saved_txid' = [saved_txid EXCEPT
                              ![r] = txid_from_binary_message(request[r].data)]
          /\ upstream' = [upstream EXCEPT
                            ![r].posted = IF transport = "https"
                                          THEN https_post(request[r].data)
                                          ELSE request[r].data,
                            ![r].posts = IF transport = "https" THEN 1 ELSE 0]
          /\ rpc' = [rpc EXCEPT ![r] = "resolving"]
     ELSE /\ rpc' = [rpc EXCEPT ![r] = "panicked"]
          /\ UNCHANGED <<saved_txid, upstream>>
  /\ UNCHANGED <<request, replies, REQUEST_ID, transport>>
  /\ UNCHANGED udpVars

\* request_handler answering every outcome of resolve_raw, an error with an
\* empty payload.
request_handler_resolved_any(r) ==
  /\ r \in Requests
  /\ rpc[r] = "resolving"
  /\ \E out \in ResolveOutcomes(transport, request[r].data) :
       /\ upstream' = [upstream EXCEPT ![r].result = out.result,
                                       ![r].response = out.response]
       /\ rpc' = [rpc EXCEPT ![r] = IF out.result.kind = "panic"
                                   THEN "panicked" ELSE "replying"]
  /\ UNCHANGED <<request, saved_txid, replies, REQUEST_ID, transport>>
  /\ UNCHANGED udpVars

\* request_handler: resolve_raw returns; on an error the request is dropped.
request_handler_resolved(r) ==
  /\ r \in Requests
  /\ rpc[r] = "resolving"
  /\ \E out \in ResolveOutcomes(transport, request[r].data) :
       /\ upstream' = [upstream EXCEPT ![r].result = out.result,
                                       ![r].response = out.response]
       /\ rpc' = [rpc EXCEPT ![r] = IF out.result.kind = "ok" THEN "replying"
                                   ELSE IF out.result.kind = "panic"
                                   THEN "panicked"
                                   ELSE "dropped"]
  /\ UNCHANGED <<request, saved_txid, replies, REQUEST_ID, transport>>
  /\ UNCHANGED udpVars

\* The upstream's payload sent on as it came.
KeepUpstreamTxid(payload, t) == payload

\* request_handler: `data[0..2].copy_from_slice(&txid.to_be_bytes())`
RestoreTxid(payload, t) == set_txid(payload, t)

\* request_handler replying to the peer of the datagram received last (one
\* Request shared by the handlers instead of one moved into each).
request_handler_reply_last(r) ==
  /\ r \in Requests
  /\ rpc[r] = "replying"
  /\ LET reply == RestoreTxid(upstream[r].result.data, saved_txid[r]) IN
     \/ /\ replies' = replies \cup
                        {[req |-> r, peer |-> request[Len(request)].peer,
                          data |-> reply]}
        /\ rpc' = [rpc EXCEPT ![r] = "done"]
     \/ /\ replies' = replies
        /\ rpc' = [rpc EXCEPT ![r] = "send_failed"]
  /\ UNCHANGED <<request, saved_txid, upstream, REQUEST_ID, transport>>
  /\ UNCHANGED udpVars

\* request_handler: the ID is restored and send_to sends the reply to the
\* request's peer, or fails.
request_handler_reply(r) ==
  /\ r \in Requests
  /\ rpc[r] = "replying"
  /\ LET reply == RestoreTxid(upstream[r].result.data, saved_txid[r]) IN
     \/ /\ replies' = replies \cup
                        {[req |-> r, peer |-> request[r].peer, data |-> reply]}
        /\ rpc' = [rpc EXCEPT ![r] = "done"]
     \/ /\ replies' = replies
        /\ rpc' = [rpc EXCEPT ![r] = "send_failed"]
  /\ UNCHANGED <<request, saved_txid, upstream, REQUEST_ID, transport>>
  /\ UNCHANGED udpVars

request_handler(r) ==
  \/ request_handler_begin(r)
  \/ request_handler_resolved(r)
  \/ request_handler_reply(r)

ResolverNext ==
  \/ socket_handler_error
  \/ socket_handler
  \/ \E r \in 1..MaxRequests : request_handler(r)

ResolverSpecInit == UdpInit /\ ResolverInit

ResolverSpec == ResolverSpecInit /\ [][ResolverNext]_vars

\* The scheduling the code runs under: tokio polls every woken task, the
\* socket send completes, the 5 s timer fires, the mutex is handed to every
\* waiter once it is free. Whether the upstream answers, and whether a caller
\* calls at all, is left open.
FairSpec ==
  /\ Spec
  /\ \A c \in Calls : WF_vars(SendOk(c) \/ SendErr(c))
  /\ \A c \in Calls : WF_vars(WaitResponse(c) \/ WaitFails(c))
  /\ \A c \in Calls : WF_vars(Cleanup(c))
  /\ WF_vars(Deliver)

\* The life of a client up to and after its drop: its owner makes DropCalls
\* calls at most and drops it. The receive task is polled whenever it is
\* woken, the mutex is handed to it once free, and select! starts its poll at
\* a branch chosen at random, so a shutdown branch that is ready again and
\* again is taken.
DropNext ==
  \/ \E c \in 1..DropCalls : resolve_raw(c)
  \/ receive_task
  \/ Drop
  \/ SendUnsolicited

DropSpec ==
  /\ Init
  /\ [][DropNext]_vars
  /\ WF_vars(Deliver)
  /\ SF_vars(Shutdown)

\* ------------------------------------------------------------------ claims
\* The call has an ID from new_pending_request and has not returned.
Outstanding(c) == txid[c] # NoTxid /\ pc[c] \notin {"done", "panicked"}

\* The table holds the sender of call c under c's ID.
OwnEntry(c) == txid[c] # NoTxid /\ SenderAt(pending, txid[c]) = c

\* C1 (as claimed): no two resolve_raw calls that have been assigned an ID
\* and have not yet returned hold the same transaction ID.
C1_UniqueUntilReturn ==
  \A c1, c2 \in Calls :
    (c1 # c2 /\ Outstanding(c1) /\ Outstanding(c2)) => txid[c1] # txid[c2]

\* C1 (amended): no two resolve_raw calls that have been assigned an ID, have
\* not returned and whose entry no delivery or cleanup has yet taken out of
\* the table hold the same transaction ID.
C1_UniqueWhileRegistered ==
  \A c1, c2 \in Calls :
    (c1 # c2 /\ Outstanding(c1) /\ Outstanding(c2)
       /\ c1 \notin consumed /\ c2 \notin consumed) => txid[c1] # txid[c2]

\* Two calls are registered at once (and, with them, a third has had its
\* entry taken out and not yet returned).
C1_Witness ==
  \E c1, c2 \in Calls :
    /\ c1 # c2
    /\ Outstanding(c1) /\ Outstanding(c2)
    /\ OwnEntry(c1) /\ OwnEntry(c2)

\* C2: a payload that a resolve_raw call returns is never the upstream's
\* response to the datagram of another call.
C2_NoForeignResponse ==
  \A c \in Calls :
    result[c].kind = "ok" => QuestionOf(result[c].data) \notin (Calls \ {c})

\* C3: whenever a resolve_raw call has returned an error (send failure,
\* closed completion handle or timeout), the pending table does not contain
\* the entry this call registered.
C3_NoEntryAfterError ==
  \A c \in Calls :
    (pc[c] = "done" /\ result[c].kind \in {"send_error", "closed", "timeout"})
      => ~OwnEntry(c)

\* C4: in the step in which a resolve_raw call returns the timeout error, the
\* table is left without an entry under the call's transaction ID.
C4_TimeoutRemovesBeforeReturn ==
  [][\A c \in Calls :
       (pc[c] = "lock_timeout" /\ pc'[c] = "done")
         => (result'[c].kind = "timeout" /\ ~contains_key(pending', txid[c]))]_vars

\* A call has returned the timeout error and the table has nothing under its ID.
C4_Witness ==
  \E c \in Calls :
    /\ pc[c] = "done"
    /\ result[c].kind = "timeout"
    /\ ~contains_key(pending, txid[c])

\* C5: when a resolve_raw call holds or has returned a payload, the pending
\* table holds no entry registered by that call.
C5_NoEntryAfterSuccess ==
  \A c \in Calls :
    (chan[c].state = "filled" \/ result[c].kind = "ok") => ~OwnEntry(c)

\* A call has returned a payload.
C5_Witness ==
  \E c \in Calls : pc[c] = "done" /\ result[c].kind = "ok"

\* C6: every resolve_raw call that has been called eventually returns.
C6_EveryCallReturns ==
  \A c \in Calls : (pc[c] # "idle") ~> (pc[c] = "done")

\* C7: in every state in which a call's datagram has been sent, the call's
\* registration has taken place: it has its ID, its datagram carries it, and
\* its entry is in the table unless a delivery or cleanup has taken it out.
C7_RegisteredBeforeSent ==
  \A c \in sent :
    /\ txid[c] \in TXIDS
    /\ txid_from_binary_message(data[c]) = txid[c]
    /\ OwnEntry(c) \/ c \in consumed

\* A call has sent its datagram and awaits the response, its entry in the table.
C7_Witness ==
  \E c \in sent : pc[c] = "wait" /\ OwnEntry(c)

\* C8 (as claimed): a transaction ID is a key of the table if and only if a
\* call using it has sent its request and nothing has consumed its entry.
C8_KeyIffSentUnconsumed ==
  \A t \in TXIDS :
    contains_key(pending, t)
      <=> (\E c \in Calls : txid[c] = t /\ c \in sent /\ c \notin consumed)

\* C8 (amended): a transaction ID is a key of the table if and only if a call
\* has registered it (whether or not its request has been sent, or could be
\* sent) and no response delivery, timeout or error cleanup has consumed the
\* entry.
C8_KeyIffRegisteredUnconsumed ==
  /\ DOMAIN pending \subseteq TXIDS
  /\ \A t \in TXIDS :
       contains_key(pending, t)
         <=> (\E c \in Calls : txid[c] = t /\ c \notin consumed)

\* An ID is in the table whose call has not sent its request yet.
C8_Witness ==
  \E c \in Calls : pc[c] = "send" /\ c \notin sent /\ OwnEntry(c)

\* C9: when the receive loop looks up a datagram whose ID is not a key of the
\* table, the table and every completion handle are unchanged and the loop is
\* back at its select.
C9_UnknownIdDiscarded ==
  [][(rxpc = "lock" /\ rxpc' # "lock"
        /\ ~contains_key(pending, txid_from_binary_message(rxdata)))
       => (pending' = pending /\ chan' = chan /\ rxpc' = "select")]_vars

\* The loop has discarded a datagram and is at its select again.
C9_Witness ==
  rxpc = "select" /\ rxOutcome = "discarded"

\* C10: every reply the resolver has sent carries in bytes 0-1 the ID of the
\* request it answers, whatever ID the upstream's payload carried.
C10_ReplyCarriesPeerTxid ==
  \A rep \in replies :
    /\ HasTxid(rep.data)
    /\ SubSeq(rep.data, 1, 2) = SubSeq(request[rep.req].data, 1, 2)
    /\ SubSeq(rep.data, 3, Len(rep.data))
         = SubSeq(upstream[rep.req].result.data, 3, Len(rep.data))

\* A reply has been sent for a request whose upstream payload came back
\* under another ID than the peer's.
C10_Witness ==
  \E rep \in replies :
    /\ upstream[rep.req].result.kind = "ok"
    /\ txid_from_binary_message(upstream[rep.req].result.data)
         # txid_from_binary_message(request[rep.req].data)
    /\ txid_from_binary_message(rep.data)
         = txid_from_binary_message(request[rep.req].data)

\* The replies sent for request r.
RepliesTo(r) == {rep \in replies : rep.req = r}

\* C11: every reply the resolver has sent answers one received request: it
\* went to the peer recorded for that request, carries that request's
\* transaction ID, and after the ID is the payload that this request's own
\* resolve_raw call returned.
C11_ReplyMatchesOwnRequest ==
  \A rep \in replies :
    /\ rep.req \in Requests
    /\ rep.peer = request[rep.req].peer
    /\ upstream[rep.req].result.kind = "ok"
    /\ rep.data = to_be_bytes(txid_from_binary_message(request[rep.req].data))
                    \o SubSeq(upstream[rep.req].result.data, 3,
                              Len(upstream[rep.req].result.data))

\* Two requests from different peers were in flight together and the later
\* one was answered first, the earlier one still awaiting its upstream.
C11_Witness ==
  \E rep \in replies :
    \E r \in Requests :
      /\ r < rep.req
      /\ rpc[r] = "resolving"
      /\ request[r].peer # request[rep.req].peer

\* C12: a received datagram is answered at most once, and not at all unless
\* its resolve_raw call returned a payload; the step in which a request is
\* dropped for an upstream error sends nothing and leaves every other
\* request as it was; and whatever requests were dropped, the dispatch loop
\* can take the next datagram and every request that has its payload can
\* send its reply.
C12_FailedRequestGetsNoReply ==
  /\ [](\A r \in Requests :
          /\ Cardinality(RepliesTo(r)) <= 1
          /\ RepliesTo(r) # {} => upstream[r].result.kind = "ok"
          /\ rpc[r] = "replying" => ENABLED request_handler_reply(r))
  /\ [](Len(rpc) < MaxRequests => ENABLED socket_handler)
  /\ [][\A r \in Requests :
          (rpc[r] = "resolving" /\ rpc'[r] = "dropped")
            => /\ replies' = replies
               /\ \A o \in Requests \ {r} :
                    /\ rpc'[o] = rpc[o]
                    /\ upstream'[o] = upstream[o]
                    /\ request'[o] = request[o]]_vars

\* One request was dropped for an upstream error and has no reply; another,
\* in flight with it, has its reply.
C12_Witness ==
  \E r, o \in Requests :
    /\ r # o
    /\ rpc[r] = "dropped"
    /\ upstream[r].result.kind \in {"status_error", "upstream_error",
                                    "timeout", "send_error", "closed"}
    /\ RepliesTo(r) = {}
    /\ rpc[o] = "done"
    /\ RepliesTo(o) # {}

\* The receive task has ended: it broke out of its loop, or a panic ended it.
ReceiveTaskEnded == rxpc \in {"stopped", "panicked"}

HttpsCalls ==
  {r \in Requests : transport = "https" /\ upstream[r].posts > 0}

\* The bytes of a message after its transaction ID.
AfterTxid(message) == SubSeq(message, 3, Len(message))

\* C14: for every request passed to HttpsClient::resolve_raw, the message
\* posted has transaction ID 0 and the request's bytes after it; a payload
\* is returned only on a success status, and it has the request's ID in
\* bytes 0-1 and the bytes of the upstream's body after them, whatever ID
\* the body carried; and a success status with a body that holds an ID is
\* answered with a payload.
C14_HttpsZeroesAndRestoresTxid ==
  \A r \in HttpsCalls :
    LET req == request[r].data
        posted == upstream[r].posted
        resp == upstream[r].response
        res == upstream[r].result
    IN /\ HasTxid(posted)
       /\ txid_from_binary_message(posted) = 0
       /\ Len(posted) = Len(req)
       /\ AfterTxid(posted) = AfterTxid(req)
       /\ res.kind = "ok"
            => /\ resp.kind = "response" /\ is_success(resp.status)
               /\ txid_from_binary_message(res.data)
                    = txid_from_binary_message(req)
               /\ Len(res.data) = Len(resp.body)
               /\ AfterTxid(res.data) = AfterTxid(resp.body)
       /\ (resp.kind = "response" /\ is_success(resp.status)
             /\ HasTxid(resp.body))
            => res.kind = "ok"

\* A request with a non-zero ID was posted, the upstream answered with a
\* success status and a body under yet another ID, and the payload returned
\* has the request's ID.
C14_Witness ==
  \E r \in HttpsCalls :
    /\ txid_from_binary_message(request[r].data) # 0
    /\ upstream[r].result.kind = "ok"
    /\ txid_from_binary_message(upstream[r].response.body)
         \notin {0, txid_from_binary_message(request[r].data)}

\* C15: when the upstream answers an HttpsClient::resolve_raw call with a
\* non-success status, the call returns the status error and no payload
\* (whatever body came with the status), and the request was posted once.
C15_NonSuccessIsError ==
  \A r \in HttpsCalls :
    (upstream[r].response.kind # "none"
       /\ upstream[r].response.kind # "transport_error"
       /\ ~is_success(upstream[r].response.status))
      => /\ upstream[r].result = Err("status_error")
         /\ upstream[r].posts = 1
         /\ rpc[r] = "dropped"

\* The upstream answered a request with status 500 and a well-formed body.
C15_Witness ==
  \E r \in HttpsCalls :
    /\ upstream[r].response.kind = "response"
    /\ upstream[r].response.status = 500
    /\ HasTxid(upstream[r].response.body)
    /\ upstream[r].result.kind = "status_error"

\* C16: the pending.remove of a resolve_raw call's error arm (timeout or
\* closed completion handle) finds under the call's ID either nothing or the
\* entry the call itself registered; it never takes out the entry of another
\* call, so no other call's completion handle is closed by it.
C16_CleanupRemovesOnlyOwn ==
  [][\A c \in Calls :
       (pc[c] \in {"lock_closed", "lock_timeout"} /\ pc'[c] = "done")
         => /\ SenderAt(pending, txid[c]) \in {NoCall, c}
            /\ \A o \in Calls \ {c} : chan'[o] = chan[o]]_vars

\* C17: the receive task is out of its loop only once the shutdown signal
\* has been sent: no datagram it receives, whatever its length or its ID,
\* ends the task before.
C17_StopsOnlyOnShutdown ==
  rxpc \notin {"select", "lock"} => shutdown_tx = "fired"

\* C18: a resolve_raw call suspended on its socket send or on the timed wait
\* for its completion handle does not hold the pending-table lock, nor does
\* the receive task while suspended on its socket receive; whenever the lock
\* is held, its holder is inside a table operation (here: the insert of
\* new_pending_request, still drawing an ID).
C18_NoLockAcrossSuspension ==
  /\ \A c \in Calls : pc[c] \in {"send", "wait"} => lock # HeldByCall(c)
  /\ rxpc = "select" => lock # HeldByReceiveTask
  /\ lock # Unlocked => \E c \in Calls : lock = HeldByCall(c) /\ pc[c] = "pick"

\* One call is suspended on its send, another on its timed wait and the
\* receive task on its receive, while a third call holds the lock inside
\* new_pending_request.
C18_Witness ==
  \E c1, c2, c3 \in Calls :
    /\ pc[c1] = "send"
    /\ pc[c2] = "wait"
    /\ rxpc = "select"
    /\ lock = HeldByCall(c3)

\* C19: a completion handle is resolved at most once. A step of the receive
\* loop that looks a datagram up takes out the entry under the datagram's ID
\* and no other; it fills the completion handle of the call that registered
\* that entry, if that call still waits, and touches no other handle; with no
\* entry under the ID (the first datagram took it and nobody registered the
\* ID anew) or with a call that gave up, no handle changes; and a handle that
\* has been filled is never changed again.
C19_ResolvedAtMostOnce ==
  /\ [][(rxpc = "lock" /\ rxpc' = "select")
          => LET t == txid_from_binary_message(rxdata)
                 o == SenderAt(pending, t)
             IN /\ pending' = remove(pending, t)
                /\ \A c \in Calls :
                     chan'[c] # chan[c]
                       => /\ c = o
                          /\ chan[c].state = "open"
                          /\ chan'[c] = [state |-> "filled", val |-> rxdata]
                /\ (o = NoCall \/ ~ReceiverAlive(o)) => chan' = chan]_vars
  /\ [][\A c \in Calls :
          chan[c].state = "filled" => chan'[c] = chan[c]]_vars

\* The receive loop has taken out the entry of a call that had given up
\* waiting (its timer fired, its cleanup still to come): the delivery failed
\* and the call's completion handle is as it was.
C19_Witness ==
  \E c \in Calls :
    /\ pc[c] = "lock_timeout"
    /\ c \in consumed
    /\ chan[c].state = "open"
    /\ rxOutcome = "served"
    /\ pending # EmptyTable

\* C20: the insert of new_pending_request never replaces an entry: the ID a
\* call leaves new_pending_request with was not a key of the table in the
\* state the insert was made in, every other entry stays, and no call ever
\* fails the assertion "TXID collision", whatever deliveries and cleanups
\* are interleaved with the calls.
C20_InsertNeverReplaces ==
  /\ [](\A c \in Calls : pc[c] # "panicked")
  /\ [][\A c \in Calls :
          (pc[c] = "idle" /\ pc'[c] \notin {"idle", "pick"})
            => /\ txid'[c] \in TXIDS
               /\ ~contains_key(pending, txid'[c])
               /\ pending' = insert(pending, txid'[c], c)
               /\ \A o \in Calls \ {c} : chan'[o] = chan[o]]_vars

\* A call has registered an ID that an earlier call had used and that a
\* delivery or cleanup had freed, next to the entry of a third call.
C20_Witness ==
  \E c1, c2, c3 \in Calls :
    /\ c1 # c2 /\ c3 \notin {c1, c2}
    /\ txid[c1] = txid[c2]
    /\ c1 \in consumed
    /\ OwnEntry(c2)
    /\ OwnEntry(c3)

====
